---- MODULE Spec2Model ----
(***************************************************************************)
(* Delivery Performance Dashboard: the transform pipeline                  *)
(* (src/src/transform.py), the raw loader (src/src/data_load.py) and the   *)
(* filter / metrics layer (src/src/metrics.py).                            *)
(*                                                                         *)
(* Tables are sequences of rows (records).  A cell is None, NaN (NaN and   *)
(* NaT are one value here), an unparseable string, or V(x) for a value x.  *)
(* Timestamps are whole numbers of ticks, TicksPerDay ticks to a day.      *)
(* Means and rates are exact rationals [num, den] in lowest terms.         *)
(***************************************************************************)
EXTENDS Integers, Sequences, FiniteSets, TLC

VARIABLES
    raw,        \* the seven raw tables in raw_dir (content of the CSV files)
    files,      \* the CSV file names present in raw_dir
    artifact,   \* processed_dir/fact_orders.parquet: [exists, rows]
    lastBuilt,  \* history: result of the most recent successful build
    df,         \* the fact table handed to the filter / metrics layer
    op,         \* name of the operation performed last
    args,       \* its arguments
    out         \* its outcome: [raised, value] (plus what the call touched)

vars == <<raw, files, artifact, lastBuilt, df, op, args, out>>

----------------------------------------------------------------------------
(* Bounds of the model *)

MaxOrders == 2      \* rows of the orders table
MaxCustomers == 2   \* rows of the customers table
MaxRows == 2        \* rows of a fact table handed to the metrics layer
MaxPayments == 3    \* rows of the order_payments table
MaxCalls == 2       \* invocations of get_fact_orders that run concurrently
MaxTick == 4        \* the last representable timestamp, in ticks
TicksPerDay == 2    \* resolution of a timestamp: ticks to a day

----------------------------------------------------------------------------
(* Cells *)

None == [null |-> "None"]
NaN == [null |-> "NaN"]
V(x) == [val |-> x]
Unparseable == [text |-> "not a date"]

isna(c) == c \in {None, NaN}
notna(c) == ~isna(c)

(* Exact rationals *)
Abs(n) == IF n < 0 THEN -n ELSE n

RECURSIVE Gcd(_, _)
Gcd(a, b) == IF b = 0 THEN a ELSE Gcd(b, a % b)

Rat(n, d) == LET g == Gcd(Abs(n), d) IN [num |-> n \div g, den |-> d \div g]
RAdd(a, b) == Rat(a.num * b.den + b.num * a.den, a.den * b.den)
Zero == Rat(0, 1)

(* Sequences *)
Range(s) == {s[i] : i \in DOMAIN s}
Column(t, c) == [i \in DOMAIN t |-> t[i][c]]

RECURSIVE Concat(_)
Concat(ss) == IF ss = <<>> THEN <<>> ELSE Head(ss) \o Concat(Tail(ss))

RECURSIVE SumInts(_)
SumInts(s) == IF s = <<>> THEN 0 ELSE Head(s) + SumInts(Tail(s))

RECURSIVE SumRats(_)
SumRats(s) == IF s = <<>> THEN Zero ELSE RAdd(Head(s), SumRats(Tail(s)))

RECURSIVE SortedInts(_)
SortedInts(S) ==
    IF S = {} THEN <<>>
    ELSE LET m == CHOOSE x \in S : \A y \in S : x <= y
         IN <<m>> \o SortedInts(S \ {m})

SeqsUpTo(S, n) == UNION {[1..k -> S] : k \in 0..n}

(* Sort order of the strings of the model (Series.mode returns its modes sorted) *)
StrOrder == <<"MG", "RJ", "SP", "boleto", "brinquedos", "credit_card", "toys",
              "voucher">>
Rank(s) == CHOOSE i \in DOMAIN StrOrder : StrOrder[i] = s

----------------------------------------------------------------------------
(* pandas primitives used by the pipeline *)

\* pd.to_datetime(col, errors="coerce") on one cell
to_datetime(c) == IF isna(c) \/ c = Unparseable THEN NaN ELSE c

\* mutant of merge: how="inner", which drops the left rows that have no match
merge_inner(left, right, on, rcols) ==
    Concat([i \in DOMAIN left |->
        LET m == SelectSeq(right, LAMBDA r : r[on] = left[i][on])
        IN  [j \in DOMAIN m |-> left[i] @@ m[j]]])

\* left.merge(right, on=on, how="left"); rcols are right's other columns
merge(left, right, on, rcols) ==
    Concat([i \in DOMAIN left |->
        LET m == SelectSeq(right, LAMBDA r : r[on] = left[i][on])
        IN  IF m = <<>>
            THEN <<left[i] @@ [c \in rcols |-> NaN]>>
            ELSE [j \in DOMAIN m |-> left[i] @@ m[j]]])

\* Series.sum() of a column of whole numbers: nulls are skipped
sum(cells) ==
    LET vals == SelectSeq(cells, notna)
    IN  V(SumInts([i \in DOMAIN vals |-> vals[i].val]))

\* Series.mean() of a column of rationals: nulls are skipped, NaN if none is left
mean(cells) ==
    LET vals == SelectSeq(cells, notna)
    IN  IF vals = <<>> THEN NaN
        ELSE LET s == SumRats([i \in DOMAIN vals |-> vals[i].val])
             IN  V(Rat(s.num, s.den * Len(vals)))

\* mutant of mode_or_none: among the most frequent values, the one met first
mode_first_seen(cells) ==
    LET vals == SelectSeq(cells, notna)
        count(v) == Cardinality({i \in DOMAIN vals : vals[i] = v})
        best == {i \in DOMAIN vals : \A w \in Range(vals) : count(w) <= count(vals[i])}
    IN  IF vals = <<>> THEN None
        ELSE vals[CHOOSE i \in best : \A j \in best : i <= j]

\* x.mode().iloc[0] if len(x.mode()) > 0 else None
mode_or_none(cells) ==
    LET vals == SelectSeq(cells, notna)
        count(v) == Cardinality({i \in DOMAIN vals : vals[i] = v})
        best == {v \in Range(vals) : \A w \in Range(vals) : count(w) <= count(v)}
    IN  IF vals = <<>> THEN None
        ELSE CHOOSE v \in best : \A w \in best : Rank(v.val) <= Rank(w.val)

\* the keys of table.groupby(key), ascending; rows with a null key are dropped
group_keys(t, key) ==
    SortedInts({t[i][key].val : i \in {j \in DOMAIN t : notna(t[j][key])}})

group(t, key, k) == SelectSeq(t, LAMBDA r : r[key] = V(k))

----------------------------------------------------------------------------
(* data_load.py *)

REQUIRED_CSVS == {
    "olist_orders_dataset.csv",
    "olist_customers_dataset.csv",
    "olist_order_items_dataset.csv",
    "olist_order_payments_dataset.csv",
    "olist_products_dataset.csv",
    "product_category_name_translation.csv",
    "olist_geolocation_dataset.csv"}

\* mutant of load_required_from_raw: a missing file is read as an empty table
load_defaulting(present, tables) ==
    [raised |-> "none",
     value |-> IF REQUIRED_CSVS \subseteq present THEN tables
               ELSE [f \in DOMAIN tables |-> <<>>]]

\* pd.read_csv raises FileNotFoundError on the first file that is missing
load_required_from_raw(present, tables) ==
    IF REQUIRED_CSVS \subseteq present
    THEN [raised |-> "none", value |-> tables]
    ELSE [raised |-> "FileNotFoundError", value |-> <<>>]

----------------------------------------------------------------------------
(* transform.py: build_fact_orders *)

geo_lookup(geolocation) ==
    LET keys == group_keys(geolocation, "geolocation_zip_code_prefix")
    IN  [k \in DOMAIN keys |->
            LET g == group(geolocation, "geolocation_zip_code_prefix", keys[k])
            IN  [customer_zip_code_prefix |-> V(keys[k]),
                 mean_lat |-> mean(Column(g, "geolocation_lat")),
                 mean_lng |-> mean(Column(g, "geolocation_lng"))]]

payment_mode(order_payments) ==
    LET keys == group_keys(order_payments, "order_id")
    IN  [k \in DOMAIN keys |->
            [order_id |-> V(keys[k]),
             payment_type_mode |->
                 mode_or_none(Column(group(order_payments, "order_id", keys[k]),
                                     "payment_type"))]]

payment_total(order_payments) ==
    LET keys == group_keys(order_payments, "order_id")
    IN  [k \in DOMAIN keys |->
            [order_id |-> V(keys[k]),
             payment_value_sum |->
                 sum(Column(group(order_payments, "order_id", keys[k]),
                            "payment_value"))]]

\* order_items + products + translation, english name falling back to the original
items_with_product(order_items, products, translation) ==
    LET a == merge(order_items, products, "product_id", {"product_category_name"})
        b == merge(a, translation, "product_category_name",
                   {"product_category_name_english"})
    IN  [i \in DOMAIN b |->
            [b[i] EXCEPT !.product_category_name_english =
                IF isna(@) THEN b[i].product_category_name ELSE @]]

freight_agg(items) ==
    LET keys == group_keys(items, "order_id")
    IN  [k \in DOMAIN keys |->
            [order_id |-> V(keys[k]),
             freight_value_sum |->
                 sum(Column(group(items, "order_id", keys[k]), "freight_value"))]]

category_agg(items) ==
    LET keys == group_keys(items, "order_id")
    IN  [k \in DOMAIN keys |->
            [order_id |-> V(keys[k]),
             product_category_mode |->
                 mode_or_none(Column(group(items, "order_id", keys[k]),
                                     "product_category_name_english"))]]

\* mutant of delay_days_of: the difference truncated towards zero
delay_days_trunc(delivered, estimated) ==
    IF isna(delivered) \/ isna(estimated) THEN NaN
    ELSE LET diff == delivered.val - estimated.val
         IN  V(IF diff < 0 THEN -((-diff) \div TicksPerDay) ELSE diff \div TicksPerDay)

\* (delivered - estimated).dt.days: the whole days of the difference, rounded down
delay_days_of(delivered, estimated) ==
    IF isna(delivered) \/ isna(estimated) THEN NaN
    ELSE V((delivered.val - estimated.val) \div TicksPerDay)

\* delay_days <= 0 on one cell: a comparison with NaN is False
on_time_of(delay) == IF isna(delay) THEN V(FALSE) ELSE V(delay.val <= 0)

\* mutant of with_delay: no delivered mask, the delay is computed on every row
with_delay_ungated(r) ==
    LET d == IF isna(r.order_delivered_customer_date)
                \/ isna(r.order_estimated_delivery_date) THEN NaN
             ELSE V((r.order_delivered_customer_date.val
                     - r.order_estimated_delivery_date.val) \div TicksPerDay)
    IN  r @@ [delay_days |-> d,
              on_time |-> IF isna(d) THEN V(FALSE) ELSE V(d.val <= 0)]

\* lines 108-116: both columns start as None and are set on the delivered rows
with_delay(r) ==
    IF r.order_status = V("delivered")
    THEN LET d == delay_days_of(r.order_delivered_customer_date,
                                r.order_estimated_delivery_date)
         IN  r @@ [delay_days |-> d, on_time |-> on_time_of(d)]
    ELSE r @@ [delay_days |-> None, on_time |-> None]

parse_dates(r) ==
    [r EXCEPT !.order_delivered_customer_date = to_datetime(@),
              !.order_estimated_delivery_date = to_datetime(@)]

FactColumns == <<"order_id", "customer_id", "order_status",
    "order_purchase_timestamp", "order_delivered_customer_date",
    "order_estimated_delivery_date", "customer_zip_code_prefix", "customer_state",
    "mean_lat", "mean_lng", "payment_type_mode", "payment_value_sum",
    "freight_value_sum", "product_category_mode", "delay_days", "on_time">>

assemble(t) ==
    LET j1 == merge(t.orders, t.customers, "customer_id",
                    {"customer_zip_code_prefix", "customer_state"})
        j2 == merge(j1, geo_lookup(t.geolocation), "customer_zip_code_prefix",
                    {"mean_lat", "mean_lng"})
        j3 == [i \in DOMAIN j2 |-> parse_dates(j2[i])]
        j4 == merge(j3, payment_mode(t.order_payments), "order_id",
                    {"payment_type_mode"})
        j5 == merge(j4, payment_total(t.order_payments), "order_id",
                    {"payment_value_sum"})
        iw == items_with_product(t.order_items, t.products,
                                 t.product_category_translation)
        j6 == merge(j5, freight_agg(iw), "order_id", {"freight_value_sum"})
        j7 == merge(j6, category_agg(iw), "order_id", {"product_category_mode"})
    IN  [i \in DOMAIN j7 |-> with_delay(j7[i])]

build_fact_orders(present, tables) ==
    LET data == load_required_from_raw(present, tables)
    IN  IF data.raised # "none" THEN data
        ELSE [raised |-> "none",
              value |-> [columns |-> FactColumns, rows |-> assemble(data.value)]]

----------------------------------------------------------------------------
(* Raw inputs *)

OrderRow(id, cust, status, purchase, delivered, estimated) ==
    [order_id |-> V(id), customer_id |-> V(cust), order_status |-> V(status),
     order_purchase_timestamp |-> purchase,
     order_delivered_customer_date |-> delivered,
     order_estimated_delivery_date |-> estimated]

CustomerRow(id, zip, state) ==
    [customer_id |-> V(id), customer_zip_code_prefix |-> V(zip),
     customer_state |-> V(state)]

GeoRow(zip, lat, lng) ==
    [geolocation_zip_code_prefix |-> V(zip), geolocation_lat |-> V(Rat(lat, 1)),
     geolocation_lng |-> V(Rat(lng, 1))]

PaymentRow(id, type, value) ==
    [order_id |-> V(id), payment_type |-> V(type), payment_value |-> value]

ItemRow(id, product, freight) ==
    [order_id |-> V(id), product_id |-> V(product), freight_value |-> V(freight)]

\* customer 2's prefix has no geolocation sample; product 2 has no category
Customers0 == <<CustomerRow(1, 1, "SP"), CustomerRow(2, 2, "RJ")>>
Geolocation0 == <<GeoRow(1, -23, -46), GeoRow(1, -24, -47)>>
Payments0 == <<PaymentRow(1, "credit_card", V(50)), PaymentRow(1, "credit_card", V(30)),
               PaymentRow(1, "boleto", NaN)>>
Items0 == <<ItemRow(1, 1, 5), ItemRow(1, 2, 7)>>
Products0 == <<[product_id |-> V(1), product_category_name |-> V("brinquedos")],
               [product_id |-> V(2), product_category_name |-> NaN]>>
Translation0 == <<[product_category_name |-> V("brinquedos"),
                   product_category_name_english |-> V("toys")]>>

Tables(orders, customers, geolocation, payments, items) ==
    [orders |-> orders, customers |-> customers, order_items |-> items,
     order_payments |-> payments, products |-> Products0,
     product_category_translation |-> Translation0, geolocation |-> geolocation]

Ticks == 0..MaxTick
DateCells == {NaN, Unparseable} \cup {V(t) : t \in Ticks}

\* inputs that vary the join keys: repeated and unmatched ids, missing aggregates
JoinOrderRows ==
    {OrderRow(i, c, "delivered", V(0), V(0), V(MaxTick)) : i \in 1..2, c \in 1..3}
JoinCustomerRows ==
    {CustomerRow(1, 1, "SP"), CustomerRow(1, 2, "MG"), CustomerRow(2, 2, "RJ")}
JoinInputs ==
    {Tables(o, c, g, p, i) :
        o \in SeqsUpTo(JoinOrderRows, MaxOrders),
        c \in SeqsUpTo(JoinCustomerRows, MaxCustomers),
        g \in {<<>>, Geolocation0}, p \in {<<>>, Payments0}, i \in {<<>>, Items0}}

\* inputs that vary one order's status and dates, alone or before a second order
DelayOrderRows ==
    {OrderRow(1, 1, s, V(0), d, e) :
        s \in {"delivered", "shipped", "canceled"}, d \in DateCells, e \in DateCells}
DelayTails ==
    {<<>>, <<OrderRow(2, 2, "delivered", V(0), V(MaxTick), V(0))>>,
     <<OrderRow(2, 2, "shipped", V(0), V(0), V(MaxTick))>>}
DelayInputs ==
    {Tables(<<r>> \o t, Customers0, Geolocation0, Payments0, Items0) :
        r \in DelayOrderRows, t \in DelayTails}

\* inputs that vary the payment rows: tied and null types, null values
PaymentOrders ==
    <<OrderRow(1, 1, "delivered", V(0), V(0), V(MaxTick)),
      OrderRow(2, 2, "shipped", V(0), NaN, V(MaxTick))>>
PaymentRows ==
    {PaymentRow(1, "credit_card", V(50)), PaymentRow(1, "credit_card", V(30)),
     PaymentRow(1, "boleto", V(50)), PaymentRow(1, "boleto", NaN),
     [PaymentRow(1, "", V(30)) EXCEPT !.payment_type = NaN],
     [PaymentRow(1, "", NaN) EXCEPT !.payment_type = NaN],
     PaymentRow(2, "voucher", V(30))}
PaymentInputs ==
    {Tables(PaymentOrders, Customers0, Geolocation0, p, Items0) :
        p \in SeqsUpTo(PaymentRows, MaxPayments)}

----------------------------------------------------------------------------
(* The build applied to bounded inputs *)

Absent == [exists |-> FALSE, rows |-> <<>>]
EmptyFrame == [columns |-> <<>>, rows |-> <<>>]
NoCall == [raised |-> "none", value |-> EmptyFrame]

InitBuild ==
    /\ raw \in JoinInputs \cup DelayInputs
    /\ files = REQUIRED_CSVS
    /\ artifact = Absent
    /\ lastBuilt = EmptyFrame
    /\ df = EmptyFrame
    /\ op = "init"
    /\ args = <<>>
    /\ out = NoCall

Build ==
    /\ op = "init"
    /\ op' = "build_fact_orders"
    /\ out' = build_fact_orders(files, raw)
    /\ df' = out'.value
    /\ UNCHANGED <<raw, files, artifact, lastBuilt, args>>

NextBuild == Build

SpecBuild == InitBuild /\ [][NextBuild]_vars

built == op = "build_fact_orders" /\ out.raised = "none"
Unique(t, c) == \A i, j \in DOMAIN t : t[i][c] = t[j][c] => i = j
RowsOf(t, c, v) == {i \in DOMAIN t : t[i][c] = v}

----------------------------------------------------------------------------
(* Claims about build_fact_orders, under SpecBuild *)

Delivered(r) == r.order_status = V("delivered")
OrderIds(t) == {t[i].order_id : i \in DOMAIN t}
AggregatesNull(r) ==
    /\ isna(r.payment_type_mode) /\ isna(r.payment_value_sum)
    /\ isna(r.freight_value_sum) /\ isna(r.product_category_mode)

\* C1 as stated: for any input tables the built table has exactly one row for
\* each distinct order id of the source orders table, and no other row.
C1_OneRowPerOrderAnyInput ==
    built =>
        /\ OrderIds(df.rows) = OrderIds(raw.orders)
        /\ \A id \in OrderIds(raw.orders) :
               Cardinality(RowsOf(df.rows, "order_id", id)) = 1

\* C1 amended: when order_id is unique in orders and customer_id is unique in
\* customers, the built table has exactly one row per order, in the orders'
\* row order, and an order with no customer, geolocation prefix, payment or
\* item still has its row, with the corresponding fields null.
C1_OneRowPerOrder ==
    (built /\ Unique(raw.orders, "order_id") /\ Unique(raw.customers, "customer_id")) =>
        /\ Len(df.rows) = Len(raw.orders)
        /\ OrderIds(df.rows) = OrderIds(raw.orders)
        /\ \A id \in OrderIds(raw.orders) :
               Cardinality(RowsOf(df.rows, "order_id", id)) = 1
        /\ \A i \in DOMAIN raw.orders :
               LET o == raw.orders[i]
                   r == df.rows[i]
               IN  /\ r.order_id = o.order_id
                   /\ RowsOf(raw.customers, "customer_id", o.customer_id) = {}
                          => isna(r.customer_state) /\ isna(r.mean_lat)
                   /\ raw.geolocation = <<>>
                          => isna(r.mean_lat) /\ isna(r.mean_lng)
                   /\ RowsOf(raw.order_payments, "order_id", o.order_id) = {}
                          => isna(r.payment_type_mode) /\ isna(r.payment_value_sum)
                   /\ RowsOf(raw.order_items, "order_id", o.order_id) = {}
                          => isna(r.freight_value_sum) /\ isna(r.product_category_mode)

\* two distinct orders are built, one of them without customer, payments and items
C1_Witness ==
    /\ built
    /\ Unique(raw.orders, "order_id") /\ Unique(raw.customers, "customer_id")
    /\ Len(raw.orders) = 2 /\ Len(df.rows) = 2
    /\ \E i \in DOMAIN df.rows :
           /\ df.rows[i].order_id = V(2)
           /\ isna(df.rows[i].customer_state)
           /\ AggregatesNull(df.rows[i])
    /\ \E i \in DOMAIN df.rows : notna(df.rows[i].payment_type_mode)

\* C2 as stated: in every built row, delay_days and on_time are non-null
\* if and only if order_status is "delivered".
C2_NonNullIffDelivered ==
    built =>
        \A i \in DOMAIN df.rows :
            LET r == df.rows[i]
            IN  (notna(r.delay_days) /\ notna(r.on_time)) <=> Delivered(r)

\* C2 amended: a non-delivered row has delay_days and on_time null whatever its
\* dates hold; a non-null delay_days or on_time occurs only on a delivered row;
\* and a delivered row has a non-null delay_days exactly when both its delivered
\* and its estimated timestamp parse.
C2_NullUnlessDelivered ==
    built =>
        \A i \in DOMAIN df.rows :
            LET r == df.rows[i]
            IN  /\ ~Delivered(r) => isna(r.delay_days) /\ isna(r.on_time)
                /\ (notna(r.delay_days) \/ notna(r.on_time)) => Delivered(r)
                /\ Delivered(r) =>
                       (notna(r.delay_days) <=>
                            /\ notna(r.order_delivered_customer_date)
                            /\ notna(r.order_estimated_delivery_date))

\* a non-delivered row holding both dates beside a delivered row with a delay
C2_Witness ==
    /\ built
    /\ \E i \in DOMAIN df.rows :
           /\ ~Delivered(df.rows[i])
           /\ notna(df.rows[i].order_delivered_customer_date)
           /\ notna(df.rows[i].order_estimated_delivery_date)
           /\ isna(df.rows[i].delay_days) /\ isna(df.rows[i].on_time)
    /\ \E i \in DOMAIN df.rows :
           Delivered(df.rows[i]) /\ notna(df.rows[i].delay_days)

\* C3: a delivered order whose delivered or estimated timestamp is absent or
\* does not parse keeps its row, and both delay_days and on_time are null;
\* on_time is never true or false on a row whose delay_days is null.
C3_NullDelayNullOnTime ==
    built =>
        /\ Len(df.rows) >= Len(raw.orders)
        /\ \A i \in DOMAIN df.rows :
               LET r == df.rows[i]
               IN  /\ (Delivered(r) /\ (isna(r.order_delivered_customer_date)
                                        \/ isna(r.order_estimated_delivery_date)))
                          => isna(r.delay_days) /\ isna(r.on_time)
                   /\ isna(r.delay_days) => isna(r.on_time)

\* C4: on every delivered row with a non-null delay_days, delay_days is the
\* number of whole days of (delivered - estimated), rounded down, and on_time
\* is (delay_days <= 0); delivered two days before the estimate gives -2, true.
C4_DelayAndOnTime ==
    built =>
        \A i \in DOMAIN df.rows :
            LET r == df.rows[i]
            IN  (Delivered(r) /\ notna(r.delay_days)) =>
                    LET diff == r.order_delivered_customer_date.val
                                - r.order_estimated_delivery_date.val
                        d == r.delay_days.val
                    IN  /\ d * TicksPerDay <= diff
                        /\ diff < (d + 1) * TicksPerDay
                        /\ r.on_time = V(d <= 0)
                        /\ diff = -2 * TicksPerDay => d = -2 /\ r.on_time = V(TRUE)

\* an order delivered two days before its estimate
C4_Witness ==
    /\ built
    /\ \E i \in DOMAIN df.rows :
           /\ Delivered(df.rows[i])
           /\ df.rows[i].delay_days = V(-2) /\ df.rows[i].on_time = V(TRUE)
           /\ df.rows[i].order_estimated_delivery_date = V(2 * TicksPerDay)
           /\ df.rows[i].order_delivered_customer_date = V(0)

----------------------------------------------------------------------------
(* The build applied to bounded payment tables *)

InitPayments ==
    /\ raw \in PaymentInputs
    /\ files = REQUIRED_CSVS
    /\ artifact = Absent
    /\ lastBuilt = EmptyFrame
    /\ df = EmptyFrame
    /\ op = "init"
    /\ args = <<>>
    /\ out = NoCall

SpecPayments == InitPayments /\ [][NextBuild]_vars

----------------------------------------------------------------------------
(* Claims about the payment aggregates, under SpecPayments *)

\* the payment rows of an order, their non-null types and their values
PaymentsOf(t, id) == SelectSeq(t, LAMBDA p : p.order_id = id)
TypesOf(pays) == SelectSeq(Column(pays, "payment_type"), notna)
Frequency(cells, v) == Cardinality({i \in DOMAIN cells : cells[i] = v})
MostFrequent(cells) ==
    {v \in Range(cells) : \A w \in Range(cells) : Frequency(cells, w) <= Frequency(cells, v)}
ValueTotal(pays) ==
    SumInts([i \in DOMAIN pays |->
                IF isna(pays[i].payment_value) THEN 0 ELSE pays[i].payment_value.val])
Reordered(t) == {[i \in DOMAIN t |-> t[f[i]]] : f \in Permutations(DOMAIN t)}

\* C12 as stated: for every order that has at least one payment row,
\* payment_type_mode is a payment type of maximal frequency among the order's
\* payment rows, the same whatever the row order of the payments, and
\* payment_value_sum is the sum of the order's payment values, null as zero.
C12_ModeOfEveryPaidOrder ==
    built =>
        /\ \A t \in Reordered(raw.order_payments) :
               payment_mode(t) = payment_mode(raw.order_payments)
        /\ \A i \in DOMAIN df.rows :
            LET r == df.rows[i]
                pays == PaymentsOf(raw.order_payments, r.order_id)
            IN  pays # <<>> =>
                    /\ notna(r.payment_type_mode)
                    /\ r.payment_type_mode \in MostFrequent(TypesOf(pays))
                    /\ r.payment_value_sum = V(ValueTotal(pays))

\* C12 amended: for every order that has at least one payment row with a
\* non-null payment type, payment_type_mode is a payment type of maximal
\* frequency among the order's non-null types, the same whatever the row
\* order of the payments; an order whose payment rows all have a null type
\* has a null payment_type_mode; payment_value_sum is the sum of the order's
\* payment values, null as zero (0 when every value is null); types
\* [credit_card, credit_card] with values [50, 30] give credit_card and 80.
C12_PaymentAggregate ==
    built =>
        /\ \A t \in Reordered(raw.order_payments) :
               /\ payment_mode(t) = payment_mode(raw.order_payments)
               /\ payment_total(t) = payment_total(raw.order_payments)
        /\ \A i \in DOMAIN df.rows :
            LET r == df.rows[i]
                pays == PaymentsOf(raw.order_payments, r.order_id)
            IN  pays # <<>> =>
                    /\ TypesOf(pays) # <<>> =>
                           /\ notna(r.payment_type_mode)
                           /\ r.payment_type_mode \in MostFrequent(TypesOf(pays))
                    /\ TypesOf(pays) = <<>> => isna(r.payment_type_mode)
                    /\ r.payment_value_sum = V(ValueTotal(pays))
                    /\ (/\ TypesOf(pays) = <<V("credit_card"), V("credit_card")>>
                        /\ Column(pays, "payment_value") = <<V(50), V(30)>>) =>
                           /\ r.payment_type_mode = V("credit_card")
                           /\ r.payment_value_sum = V(80)

\* an order paid by credit_card then boleto, one value null: the two types tie
\* and the type met first is not the one chosen
C12_Witness ==
    /\ built
    /\ \E i \in DOMAIN df.rows :
           LET pays == PaymentsOf(raw.order_payments, df.rows[i].order_id)
           IN  /\ Column(pays, "payment_type") = <<V("credit_card"), V("boleto")>>
               /\ Column(pays, "payment_value") = <<V(30), NaN>>
               /\ df.rows[i].payment_type_mode = V("boleto")
               /\ df.rows[i].payment_value_sum = V(30)

----------------------------------------------------------------------------
(* transform.py: get_fact_orders and the cache artifact *)

FileNull == [null |-> "null"]

\* columns read back with dtype object (a null is None); the others are
\* numeric or datetime columns (a null is NaN / NaT)
ObjectColumns == {"order_id", "customer_id", "order_status",
    "order_purchase_timestamp", "customer_state", "payment_type_mode",
    "product_category_mode", "on_time"}

\* df.to_parquet(path, index=False): every null cell is stored as a null
to_parquet(frame) ==
    [exists |-> TRUE,
     columns |-> frame.columns,
     rows |-> [i \in DOMAIN frame.rows |->
                  [c \in DOMAIN frame.rows[i] |->
                      IF isna(frame.rows[i][c]) THEN FileNull ELSE frame.rows[i][c]]]]

\* pd.read_parquet(path)
read_parquet(file) ==
    [columns |-> file.columns,
     rows |-> [i \in DOMAIN file.rows |->
                  [c \in DOMAIN file.rows[i] |->
                      IF file.rows[i][c] # FileNull THEN file.rows[i][c]
                      ELSE IF c \in ObjectColumns THEN None ELSE NaN]]]

\* mutant of get_fact_orders: the existing artifact is used even when
\* use_cache_file is False
get_fact_orders_always_cached(present, tables, art, use_cache_file) ==
    IF art.exists
    THEN [raised |-> "none", value |-> read_parquet(art), artifact |-> art,
          read_raw |-> FALSE, wrote |-> FALSE]
    ELSE LET b == build_fact_orders(present, tables)
         IN  IF b.raised # "none"
             THEN [raised |-> b.raised, value |-> EmptyFrame, artifact |-> art,
                   read_raw |-> TRUE, wrote |-> FALSE]
             ELSE [raised |-> "none", value |-> b.value,
                   artifact |-> to_parquet(b.value),
                   read_raw |-> TRUE, wrote |-> TRUE]

\* the outcome of one call: what is raised or returned, the artifact afterwards,
\* whether the raw files were read and whether the artifact was written
get_fact_orders(present, tables, art, use_cache_file) ==
    IF use_cache_file /\ art.exists
    THEN [raised |-> "none", value |-> read_parquet(art), artifact |-> art,
          read_raw |-> FALSE, wrote |-> FALSE]
    ELSE LET b == build_fact_orders(present, tables)
         IN  IF b.raised # "none"
             THEN [raised |-> b.raised, value |-> EmptyFrame, artifact |-> art,
                   read_raw |-> TRUE, wrote |-> FALSE]
             ELSE [raised |-> "none", value |-> b.value,
                   artifact |-> to_parquet(b.value),
                   read_raw |-> TRUE, wrote |-> TRUE]

\* the raw directory holds one of these datasets at a time
CacheDatasets ==
    {Tables(o, Customers0, Geolocation0, Payments0, Items0) :
        o \in {<<>>,
               <<OrderRow(1, 1, "delivered", V(0), V(0), V(MaxTick))>>,
               <<OrderRow(1, 1, "delivered", V(0), NaN, V(MaxTick)),
                 OrderRow(2, 2, "shipped", V(1), NaN, V(MaxTick))>>}}

Init ==
    /\ raw \in CacheDatasets
    /\ files = REQUIRED_CSVS
    /\ artifact = Absent
    /\ lastBuilt = EmptyFrame
    /\ df = EmptyFrame
    /\ op = "init"
    /\ args = <<>>
    /\ out = NoCall

GetFactOrders(use_cache_file) ==
    LET res == get_fact_orders(files, raw, artifact, use_cache_file)
    IN  /\ op' = "get_fact_orders"
        /\ args' = [use_cache_file |-> use_cache_file]
        /\ out' = [raised |-> res.raised, value |-> res.value,
                   read_raw |-> res.read_raw, wrote |-> res.wrote]
        /\ artifact' = res.artifact
        /\ lastBuilt' = IF res.wrote THEN res.value ELSE lastBuilt
        /\ df' = IF res.raised = "none" THEN res.value ELSE df
        /\ UNCHANGED <<raw, files>>

\* the environment: the raw files change, disappear and come back, and the
\* artifact is deleted out of band
ChangeRaw ==
    /\ raw' \in CacheDatasets \ {raw}
    /\ op' = "change_raw"
    /\ UNCHANGED <<files, artifact, lastBuilt, df, args, out>>

RemoveFile(f) ==
    /\ f \in files
    /\ files' = files \ {f}
    /\ op' = "remove_file"
    /\ UNCHANGED <<raw, artifact, lastBuilt, df, args, out>>

SupplyFile(f) ==
    /\ f \notin files
    /\ files' = files \cup {f}
    /\ op' = "supply_file"
    /\ UNCHANGED <<raw, artifact, lastBuilt, df, args, out>>

DeleteArtifact ==
    /\ artifact.exists
    /\ artifact' = Absent
    /\ op' = "delete_artifact"
    /\ UNCHANGED <<raw, files, lastBuilt, df, args, out>>

Next ==
    \/ \E u \in BOOLEAN : GetFactOrders(u)
    \/ ChangeRaw
    \/ \E f \in REQUIRED_CSVS : RemoveFile(f)
    \/ \E f \in REQUIRED_CSVS : SupplyFile(f)
    \/ DeleteArtifact

Spec == Init /\ [][Next]_vars

----------------------------------------------------------------------------
(* Claims about get_fact_orders, under Spec *)

CacheHit == args'.use_cache_file /\ artifact.exists

\* C5: a call with use_cache_file=True made while the artifact exists returns
\* the table persisted by the most recent building call, reads no raw input
\* and writes nothing; a call builds from raw exactly when the artifact is
\* absent or use_cache_file=False, and a build that succeeds persists its
\* result, so an existing artifact always holds the most recent build.
C5_CacheContract ==
    /\ [](artifact.exists => artifact = to_parquet(lastBuilt))
    /\ [][op' = "get_fact_orders" =>
            /\ out'.read_raw <=> ~CacheHit
            /\ CacheHit =>
                   /\ out'.raised = "none"
                   /\ out'.value = read_parquet(to_parquet(lastBuilt))
                   /\ ~out'.wrote
                   /\ artifact' = artifact
                   /\ lastBuilt' = lastBuilt
            /\ (~CacheHit /\ out'.raised = "none") =>
                   /\ out'.value = build_fact_orders(files, raw).value
                   /\ out'.wrote
                   /\ artifact' = to_parquet(out'.value)
                   /\ lastBuilt' = out'.value]_vars

\* a cached call returned a table that the raw inputs of that moment no
\* longer produce
C5_Witness ==
    /\ op = "get_fact_orders" /\ args.use_cache_file
    /\ ~out.read_raw /\ out.raised = "none"
    /\ artifact.exists
    /\ files = REQUIRED_CSVS
    /\ out.value = read_parquet(artifact)
    /\ to_parquet(build_fact_orders(files, raw).value) # artifact

\* C6: a building call made while a required source file is missing raises,
\* returns no table and leaves the artifact as it was, and so does every
\* later building call while a file is missing; a call served from the
\* existing artifact succeeds whatever files are missing.
C6_MissingSourceFails ==
    [][op' = "get_fact_orders" =>
            /\ files' = files
            /\ (~CacheHit /\ ~(REQUIRED_CSVS \subseteq files)) =>
                   /\ out'.raised = "FileNotFoundError"
                   /\ out'.value = EmptyFrame
                   /\ ~out'.wrote
                   /\ artifact' = artifact
                   /\ df' = df
            /\ (~CacheHit /\ REQUIRED_CSVS \subseteq files) => out'.raised = "none"
            /\ CacheHit => out'.raised = "none"]_vars

\* a forced rebuild failed on a missing file beside an artifact that is kept
C6_Witness ==
    /\ op = "get_fact_orders" /\ ~args.use_cache_file
    /\ out.raised = "FileNotFoundError"
    /\ files # REQUIRED_CSVS
    /\ artifact.exists /\ artifact = to_parquet(lastBuilt)
    /\ Len(artifact.rows) > 0

----------------------------------------------------------------------------
(* metrics.py: apply_filters *)

\* pd.Timestamp.min and pd.Timestamp.max: the ends of the timestamp range
TimestampMin == 0
TimestampMax == MaxTick

empty(frame) == Len(frame.rows) = 0 \/ Len(frame.columns) = 0
Has(frame, c) == c \in Range(frame.columns)
fillna(c, v) == IF isna(c) THEN v ELSE c
isin(c, list) == notna(c) /\ c.val \in Range(list)

\* mutant of list_active: an empty list filters too
list_given(l) == l # None

\* "states is not None and len(states) > 0"
list_active(l) == l # None /\ Len(l.val) > 0

\* the columns the active filters read
filter_columns(date_range, states, categories, payment_types, delivered_only) ==
    (IF Len(date_range) >= 2 /\ (date_range[1] # None \/ date_range[2] # None)
     THEN {"order_purchase_timestamp"} ELSE {})
    \cup (IF list_active(states) THEN {"customer_state"} ELSE {})
    \cup (IF list_active(categories) THEN {"product_category_mode"} ELSE {})
    \cup (IF list_active(payment_types) THEN {"payment_type_mode"} ELSE {})
    \cup (IF delivered_only THEN {"order_status"} ELSE {})

\* date_range is <<>> (None) or <<start, end>>, each bound None or V(t);
\* a list argument is None or V(list)
apply_filters(frame, date_range, states, categories, payment_types, delivered_only) ==
    IF empty(frame) THEN [raised |-> "none", value |-> EmptyFrame]
    ELSE IF ~(filter_columns(date_range, states, categories, payment_types,
                             delivered_only) \subseteq Range(frame.columns))
    THEN [raised |-> "KeyError", value |-> EmptyFrame]
    ELSE
    LET r0 == IF Has(frame, "order_purchase_timestamp")
              THEN [i \in DOMAIN frame.rows |->
                       [frame.rows[i] EXCEPT
                           !.order_purchase_timestamp = to_datetime(@)]]
              ELSE frame.rows
        r1 == IF Len(date_range) >= 2 /\ date_range[1] # None
              THEN SelectSeq(r0, LAMBDA r :
                       fillna(r.order_purchase_timestamp, V(TimestampMin)).val
                           >= date_range[1].val)
              ELSE r0
        r2 == IF Len(date_range) >= 2 /\ date_range[2] # None
              THEN SelectSeq(r1, LAMBDA r :
                       fillna(r.order_purchase_timestamp, V(TimestampMax)).val
                           <= date_range[2].val)
              ELSE r1
        r3 == IF list_active(states)
              THEN SelectSeq(r2, LAMBDA r : isin(r.customer_state, states.val))
              ELSE r2
        r4 == IF list_active(categories)
              THEN SelectSeq(r3, LAMBDA r : isin(r.product_category_mode, categories.val))
              ELSE r3
        r5 == IF list_active(payment_types)
              THEN SelectSeq(r4, LAMBDA r : isin(r.payment_type_mode, payment_types.val))
              ELSE r4
        r6 == IF delivered_only
              THEN SelectSeq(r5, LAMBDA r : r.order_status = V("delivered"))
              ELSE r5
    IN  [raised |-> "none", value |-> [columns |-> frame.columns, rows |-> r6]]

----------------------------------------------------------------------------
(* Fact tables handed to the filter / metrics layer *)

BaseRow ==
    [order_id |-> V(1), customer_id |-> V(1), order_status |-> V("delivered"),
     order_purchase_timestamp |-> V(TimestampMin),
     order_delivered_customer_date |-> V(0),
     order_estimated_delivery_date |-> V(2 * TicksPerDay),
     customer_zip_code_prefix |-> V(1), customer_state |-> V("SP"),
     mean_lat |-> V(Rat(-23, 1)), mean_lng |-> V(Rat(-46, 1)),
     payment_type_mode |-> V("credit_card"), payment_value_sum |-> V(80),
     freight_value_sum |-> V(12), product_category_mode |-> V("toys"),
     delay_days |-> V(-2), on_time |-> V(TRUE)]

\* the rows numbered 1, 2, ... as order ids
Frame(rows) ==
    [columns |-> FactColumns,
     rows |-> [i \in DOMAIN rows |-> [rows[i] EXCEPT !.order_id = V(i)]]]

FilterTicks == {TimestampMin, MaxTick \div 2, TimestampMax}

DateRows ==
    {[BaseRow EXCEPT !.order_purchase_timestamp = t, !.order_status = V(s)] :
        t \in {NaN, Unparseable} \cup {V(k) : k \in FilterTicks},
        s \in {"delivered", "shipped"}}

ListRows ==
    {[BaseRow EXCEPT !.customer_state = a, !.product_category_mode = b,
                     !.payment_type_mode = c] :
        a \in {NaN, V("SP"), V("RJ")}, b \in {NaN, V("toys")},
        c \in {NaN, V("boleto")}}

FilterFrames ==
    {Frame(rows) : rows \in SeqsUpTo(DateRows, MaxRows) \cup SeqsUpTo(ListRows, MaxRows)}

DateRanges ==
    {<<>>} \cup {<<a, b>> : a \in {None, V(TimestampMin), V(MaxTick \div 2)},
                            b \in {None, V(MaxTick \div 2), V(TimestampMax)}}

FilterSettings ==
    [date_range : DateRanges, states : {None}, categories : {None},
     payment_types : {None}, delivered_only : BOOLEAN]
    \cup
    [date_range : {<<>>},
     states : {None, V(<<>>), V(<<"SP">>), V(<<"SP", "RJ">>)},
     categories : {None, V(<<"toys">>)},
     payment_types : {V(<<>>), V(<<"boleto">>)},
     delivered_only : {FALSE}]

Filtered(frame, f) ==
    apply_filters(frame, f.date_range, f.states, f.categories, f.payment_types,
                  f.delivered_only)

InitFilter ==
    /\ raw = Tables(<<>>, <<>>, <<>>, <<>>, <<>>)
    /\ files = REQUIRED_CSVS
    /\ artifact = Absent
    /\ lastBuilt = EmptyFrame
    /\ df \in FilterFrames
    /\ op = "init"
    /\ args = <<>>
    /\ out = NoCall

ApplyFilters(f) ==
    /\ op = "init"
    /\ op' = "apply_filters"
    /\ args' = f
    /\ out' = Filtered(df, f)
    /\ UNCHANGED <<raw, files, artifact, lastBuilt, df>>

NextFilter == \E f \in FilterSettings : ApplyFilters(f)

SpecFilter == InitFilter /\ [][NextFilter]_vars

----------------------------------------------------------------------------
(* Claims about apply_filters, under SpecFilter *)

filtered == op = "apply_filters" /\ out.raised = "none"
ParsedRows(frame) ==
    [i \in DOMAIN frame.rows |->
        [frame.rows[i] EXCEPT !.order_purchase_timestamp = to_datetime(@)]]

StartOf(f) == IF Len(f.date_range) >= 2 THEN f.date_range[1] ELSE None
EndOf(f) == IF Len(f.date_range) >= 2 THEN f.date_range[2] ELSE None
Restricts(l) == l # None /\ l.val # <<>>

\* the row passes every constraint of f that is active; a null fails it
Satisfies(r, f) ==
    /\ StartOf(f) # None =>
           /\ notna(r.order_purchase_timestamp)
           /\ r.order_purchase_timestamp.val >= StartOf(f).val
    /\ EndOf(f) # None =>
           /\ notna(r.order_purchase_timestamp)
           /\ r.order_purchase_timestamp.val <= EndOf(f).val
    /\ Restricts(f.states) =>
           notna(r.customer_state) /\ r.customer_state.val \in Range(f.states.val)
    /\ Restricts(f.categories) =>
           /\ notna(r.product_category_mode)
           /\ r.product_category_mode.val \in Range(f.categories.val)
    /\ Restricts(f.payment_types) =>
           /\ notna(r.payment_type_mode)
           /\ r.payment_type_mode.val \in Range(f.payment_types.val)
    /\ f.delivered_only => r.order_status = V("delivered")

\* C7: apply_filters returns exactly the rows of its input that satisfy every
\* active constraint, in input order; a row whose filtered field is null fails
\* an active filter (a null purchase timestamp is excluded as soon as either
\* date bound is given) and is kept when the filter is inactive.
C7_ExactlyTheMatchingRows ==
    op = "apply_filters" =>
        /\ out.raised = "none"
        /\ out.value.rows = SelectSeq(ParsedRows(df), LAMBDA r : Satisfies(r, args))

\* the settings that add one constraint to f
OneMore(f) ==
    {[f EXCEPT !.date_range = <<a, EndOf(f)>>] :
        a \in IF StartOf(f) = None THEN {V(t) : t \in FilterTicks} ELSE {}}
    \cup {[f EXCEPT !.date_range = <<StartOf(f), b>>] :
        b \in IF EndOf(f) = None THEN {V(t) : t \in FilterTicks} ELSE {}}
    \cup {[f EXCEPT !.states = V(l)] :
        l \in IF ~Restricts(f.states) THEN {<<"SP">>, <<"RJ">>, <<"SP", "RJ">>}
              ELSE IF Len(f.states.val) > 1 THEN {<<f.states.val[1]>>, Tail(f.states.val)}
              ELSE {}}
    \cup {[f EXCEPT !.categories = V(<<"toys">>)] :
        x \in IF ~Restricts(f.categories) THEN {1} ELSE {}}
    \cup {[f EXCEPT !.payment_types = V(<<"boleto">>)] :
        x \in IF ~Restricts(f.payment_types) THEN {1} ELSE {}}
    \cup {[f EXCEPT !.delivered_only = TRUE] :
        x \in IF ~f.delivered_only THEN {1} ELSE {}}

\* the settings in which one non-empty list of f has become empty
Emptied(f) ==
    {[f EXCEPT !.states = V(<<>>)] : x \in IF Restricts(f.states) THEN {1} ELSE {}}
    \cup {[f EXCEPT !.categories = V(<<>>)] :
        x \in IF Restricts(f.categories) THEN {1} ELSE {}}
    \cup {[f EXCEPT !.payment_types = V(<<>>)] :
        x \in IF Restricts(f.payment_types) THEN {1} ELSE {}}

NoFilterActive(f) ==
    /\ StartOf(f) = None /\ EndOf(f) = None
    /\ ~Restricts(f.states) /\ ~Restricts(f.categories) /\ ~Restricts(f.payment_types)
    /\ ~f.delivered_only

\* C8: a setting that adds a constraint (sets a date bound, makes an empty list
\* non-empty, shrinks a non-empty list, sets delivered_only) returns a subset
\* of the rows; no active filter returns every row; a list that becomes empty
\* removes its constraint (the result can only grow).
C8_Monotonic ==
    filtered =>
        /\ \A g \in OneMore(args) :
               LET res == Filtered(df, g)
               IN  /\ res.raised = "none"
                   /\ Range(res.value.rows) \subseteq Range(out.value.rows)
                   /\ Len(res.value.rows) <= Len(out.value.rows)
        /\ NoFilterActive(args) => out.value.rows = ParsedRows(df)
        /\ \A h \in Emptied(args) :
               Range(out.value.rows) \subseteq Range(Filtered(df, h).value.rows)

\* a setting with an empty states list kept two rows and naming one state
\* keeps only one of them
C8_Witness ==
    /\ filtered
    /\ args.states = V(<<>>)
    /\ Len(out.value.rows) = 2
    /\ \E g \in OneMore(args) :
           /\ Restricts(g.states)
           /\ Len(Filtered(df, g).value.rows) = 1

----------------------------------------------------------------------------
(* metrics.py: compute_kpis *)

KpiDefaults ==
    [total_orders |-> 0, delivered_orders |-> 0, on_time_count |-> 0,
     on_time_rate |-> Zero, avg_delay_days |-> Zero,
     total_payment_value |-> Zero, total_freight_value |-> Zero]

\* a / b of two whole numbers
divide(a, b) ==
    IF b = 0 THEN [raised |-> "ZeroDivisionError", value |-> Zero]
    ELSE [raised |-> "none", value |-> Rat(a, b)]

\* Series.mean() of a column of whole numbers, nulls skipped, NaN if none is left
mean_of_ints(cells) ==
    LET vals == SelectSeq(cells, notna)
    IN  IF vals = <<>> THEN NaN
        ELSE V(Rat(SumInts([i \in DOMAIN vals |-> vals[i].val]), Len(vals)))

\* float(df[c].fillna(0).sum()) if c in df.columns else 0.0
total_of(frame, c) ==
    IF Has(frame, c)
    THEN Rat(SumInts([i \in DOMAIN frame.rows |-> fillna(frame.rows[i][c], V(0)).val]), 1)
    ELSE Zero

compute_kpis(frame) ==
    IF empty(frame) THEN [raised |-> "none", value |-> KpiDefaults]
    ELSE IF ~Has(frame, "order_status") THEN [raised |-> "KeyError", value |-> KpiDefaults]
    ELSE
    LET delivered == SelectSeq(frame.rows, LAMBDA r : r.order_status = V("delivered"))
        delivered_orders == Len(delivered)
    IN  IF delivered_orders > 0 /\ ~(Has(frame, "on_time") /\ Has(frame, "delay_days"))
        THEN [raised |-> "KeyError", value |-> KpiDefaults]
        ELSE
        LET on_time_valid == SelectSeq(Column(delivered, "on_time"), notna)
            on_time_count ==
                IF delivered_orders > 0
                THEN Len(SelectSeq(on_time_valid, LAMBDA c : c = V(TRUE)))
                ELSE 0
            on_time_rate ==
                IF delivered_orders > 0 THEN divide(on_time_count, delivered_orders)
                ELSE [raised |-> "none", value |-> Zero]
            delay_mean == mean_of_ints(Column(delivered, "delay_days"))
            avg_delay_days ==
                IF delivered_orders > 0 /\ notna(delay_mean) THEN delay_mean.val
                ELSE Zero
        IN  [raised |-> on_time_rate.raised,
             value |-> [total_orders |-> Len(frame.rows),
                        delivered_orders |-> delivered_orders,
                        on_time_count |-> on_time_count,
                        on_time_rate |-> on_time_rate.value,
                        avg_delay_days |-> avg_delay_days,
                        total_payment_value |-> total_of(frame, "payment_value_sum"),
                        total_freight_value |-> total_of(frame, "freight_value_sum")]]

----------------------------------------------------------------------------
(* metrics.py: group_geo *)

GeoColumns == <<"customer_state", "mean_lat", "mean_lng", "order_count",
                "delivered_count", "on_time_count", "on_time_rate", "avg_delay_days">>

\* the columns of a result that holds rows; on_time_rate is added last
GeoResultColumns == <<"customer_state", "mean_lat", "mean_lng", "order_count",
                      "delivered_count", "on_time_count", "avg_delay_days", "on_time_rate">>

RECURSIVE SortedStrings(_)
SortedStrings(S) ==
    IF S = {} THEN <<>>
    ELSE LET m == CHOOSE x \in S : \A y \in S : Rank(x) <= Rank(y)
         IN <<m>> \o SortedStrings(S \ {m})

\* the keys of groupby("customer_state"), ascending; null states are dropped
state_keys(t) ==
    SortedStrings({t[i].customer_state.val :
                      i \in {j \in DOMAIN t : notna(t[j].customer_state)}})

\* Series.nunique(): the distinct non-null values
nunique(cells) == Cardinality({c \in Range(cells) : notna(c)})

\* mutant of on_time_rate_of: the quotient without .fillna(0.0)
on_time_rate_nofill(on_time_count, delivered_count) ==
    IF isna(on_time_count) \/ isna(delivered_count) \/ delivered_count = V(0) THEN NaN
    ELSE V(Rat(on_time_count.val, delivered_count.val))

\* (on_time_count / delivered_count.replace(0, pd.NA)).fillna(0.0)
on_time_rate_of(on_time_count, delivered_count) ==
    LET d == IF delivered_count = V(0) THEN NaN ELSE delivered_count
        q == IF isna(on_time_count) \/ isna(d) THEN NaN
             ELSE V(Rat(on_time_count.val, d.val))
    IN  fillna(q, V(Zero))

\* mutant of dropna_geo: no row is dropped
dropna_nothing(rows) == rows

\* df.dropna(subset=["mean_lat", "mean_lng"])
dropna_geo(rows) == SelectSeq(rows, LAMBDA r : notna(r.mean_lat) /\ notna(r.mean_lng))

group_geo(frame) ==
    IF empty(frame) THEN [raised |-> "none", value |-> [columns |-> GeoColumns, rows |-> <<>>]]
    ELSE IF ~({"customer_state", "mean_lat", "mean_lng"} \subseteq Range(frame.columns))
    THEN [raised |-> "none",
          value |-> [columns |-> <<"customer_state", "mean_lat", "mean_lng", "order_count">>,
                     rows |-> <<>>]]
    ELSE
    LET geo_clean == dropna_geo(frame.rows)
    IN  IF geo_clean = <<>>
        THEN [raised |-> "none", value |-> [columns |-> GeoColumns, rows |-> <<>>]]
        ELSE IF ~({"order_id", "order_status"} \subseteq Range(frame.columns))
        THEN [raised |-> "KeyError", value |-> EmptyFrame]
        ELSE
        LET keys == state_keys(geo_clean)
            of_state(t, k) == SelectSeq(t, LAMBDA r : r.customer_state = V(k))
            agg == [k \in DOMAIN keys |->
                       LET g == of_state(geo_clean, keys[k])
                       IN  [customer_state |-> V(keys[k]),
                            mean_lat |-> mean(Column(g, "mean_lat")),
                            mean_lng |-> mean(Column(g, "mean_lng")),
                            order_count |-> V(nunique(Column(g, "order_id")))]]
            delivered == SelectSeq(geo_clean, LAMBDA r : r.order_status = V("delivered"))
            dkeys == state_keys(delivered)
            delivered_agg ==
                [k \in DOMAIN dkeys |->
                    LET g == of_state(delivered, dkeys[k])
                    IN  [customer_state |-> V(dkeys[k]),
                         delivered_count |-> V(nunique(Column(g, "order_id"))),
                         on_time_count |->
                             V(Len(SelectSeq(Column(g, "on_time"),
                                             LAMBDA c : fillna(c, V(FALSE)) = V(TRUE)))),
                         avg_delay_days |-> mean_of_ints(Column(g, "delay_days"))]]
        IN  IF delivered # <<>> /\ ~({"on_time", "delay_days"} \subseteq Range(frame.columns))
            THEN [raised |-> "KeyError", value |-> EmptyFrame]
            ELSE
            LET merged ==
                    IF delivered # <<>>
                    THEN merge(agg, delivered_agg, "customer_state",
                               {"delivered_count", "on_time_count", "avg_delay_days"})
                    ELSE [i \in DOMAIN agg |->
                             agg[i] @@ [delivered_count |-> V(0), on_time_count |-> V(0),
                                        avg_delay_days |-> V(Zero)]]
            IN  [raised |-> "none",
                 value |->
                     [columns |-> GeoResultColumns,
                      rows |-> [i \in DOMAIN merged |->
                          [merged[i] EXCEPT
                              !.delivered_count = fillna(@, V(0)),
                              !.on_time_count = fillna(@, V(0)),
                              !.avg_delay_days = fillna(@, V(Zero))]
                          @@ [on_time_rate |->
                                  on_time_rate_of(merged[i].on_time_count,
                                                  merged[i].delivered_count)]]]]

----------------------------------------------------------------------------
(* The metrics applied to bounded fact tables *)

\* (on_time, delay_days) of a row
Outcomes == {<<None, NaN>>, <<V(TRUE), V(-2)>>, <<V(FALSE), V(1)>>, <<V(FALSE), NaN>>}

KpiRows ==
    {[BaseRow EXCEPT !.order_status = V(s), !.on_time = o[1], !.delay_days = o[2]] :
        s \in {"delivered", "shipped"}, o \in Outcomes}

GeoRows ==
    {[BaseRow EXCEPT !.order_status = V(s), !.on_time = o[1], !.delay_days = o[2],
                     !.customer_state = a, !.mean_lat = c[1], !.mean_lng = c[2]] :
        s \in {"delivered", "shipped"},
        o \in {<<None, NaN>>, <<V(TRUE), V(-2)>>, <<V(FALSE), V(1)>>},
        a \in {NaN, V("SP"), V("RJ")},
        c \in {<<NaN, NaN>>, <<V(Rat(-23, 1)), V(Rat(-46, 1))>>}}

MetricFrames ==
    {Frame(rows) : rows \in SeqsUpTo(KpiRows, MaxRows) \cup SeqsUpTo(GeoRows, MaxRows)}

InitMetrics ==
    /\ raw = Tables(<<>>, <<>>, <<>>, <<>>, <<>>)
    /\ files = REQUIRED_CSVS
    /\ artifact = Absent
    /\ lastBuilt = EmptyFrame
    /\ df \in MetricFrames
    /\ op = "init"
    /\ args = <<>>
    /\ out = NoCall

ComputeKpis ==
    /\ op = "init"
    /\ op' = "compute_kpis"
    /\ out' = compute_kpis(df)
    /\ UNCHANGED <<raw, files, artifact, lastBuilt, df, args>>

GroupGeo ==
    /\ op = "init"
    /\ op' = "group_geo"
    /\ out' = group_geo(df)
    /\ UNCHANGED <<raw, files, artifact, lastBuilt, df, args>>

NextMetrics == ComputeKpis \/ GroupGeo

SpecMetrics == InitMetrics /\ [][NextMetrics]_vars

----------------------------------------------------------------------------
(* Claims about compute_kpis and group_geo, under SpecMetrics *)

DeliveredRows(frame) == SelectSeq(frame.rows, LAMBDA r : r.order_status = V("delivered"))
OnTimeKnown(frame) == SelectSeq(DeliveredRows(frame), LAMBDA r : notna(r.on_time))
OnTimeTrue(frame) == SelectSeq(DeliveredRows(frame), LAMBDA r : r.on_time = V(TRUE))
DelayKnown(frame) == SelectSeq(DeliveredRows(frame), LAMBDA r : notna(r.delay_days))
DelaySum(frame) ==
    SumInts([i \in DOMAIN DelayKnown(frame) |-> DelayKnown(frame)[i].delay_days.val])

\* C9: on_time_count is the number of delivered rows whose on_time is true;
\* on_time_rate is that count divided by the number of delivered rows whose
\* on_time is non-null; avg_delay_days is the mean of delay_days over the
\* delivered rows with a non-null delay, 0.0 if there are none.
C9_RateOverKnownOnTime ==
    (op = "compute_kpis" /\ out.raised = "none") =>
        /\ out.value.on_time_count = Len(OnTimeTrue(df))
        /\ out.value.on_time_rate =
               IF Len(OnTimeKnown(df)) = 0 THEN Zero
               ELSE Rat(Len(OnTimeTrue(df)), Len(OnTimeKnown(df)))
        /\ out.value.avg_delay_days =
               IF Len(DelayKnown(df)) = 0 THEN Zero
               ELSE Rat(DelaySum(df), Len(DelayKnown(df)))

HasCoordinates(r) == notna(r.mean_lat) /\ notna(r.mean_lng)

\* C10: compute_kpis and group_geo raise nothing on empty or all-null input:
\* compute_kpis returns the seven zero defaults on an empty table, and rate and
\* mean 0.0 when no row is delivered or every delay is null; group_geo returns
\* zero rows with its eight columns on an empty table or when every coordinate
\* is null; every row group_geo returns has a non-null on_time_rate and
\* avg_delay_days, 0.0 for a state with no delivered row.
C10_NoFaultOnEmptyOrNull ==
    /\ op = "compute_kpis" =>
           /\ out.raised = "none"
           /\ df.rows = <<>> => out.value = KpiDefaults
           /\ DeliveredRows(df) = <<>> =>
                  /\ out.value.on_time_count = 0
                  /\ out.value.on_time_rate = Zero
                  /\ out.value.avg_delay_days = Zero
           /\ DelayKnown(df) = <<>> => out.value.avg_delay_days = Zero
    /\ op = "group_geo" =>
           /\ out.raised = "none"
           /\ (\A i \in DOMAIN df.rows : ~HasCoordinates(df.rows[i])) =>
                  /\ out.value.rows = <<>>
                  /\ Len(out.value.columns) = 8
                  /\ Range(out.value.columns) = Range(GeoColumns)
           /\ \A i \in DOMAIN out.value.rows :
                  LET g == out.value.rows[i]
                      members == SelectSeq(DeliveredRows(df), LAMBDA r :
                                     HasCoordinates(r) /\ r.customer_state = g.customer_state)
                  IN  /\ notna(g.on_time_rate) /\ notna(g.avg_delay_days)
                      /\ notna(g.delivered_count) /\ notna(g.on_time_count)
                      /\ members = <<>> =>
                             /\ g.delivered_count = V(0)
                             /\ g.on_time_rate = V(Zero)
                             /\ g.avg_delay_days = V(Zero)

\* group_geo returned a state without delivered rows beside one that has some
C10_Witness ==
    /\ op = "group_geo" /\ out.raised = "none"
    /\ \E i, j \in DOMAIN out.value.rows :
           /\ out.value.rows[i].delivered_count = V(0)
           /\ out.value.rows[i].on_time_rate = V(Zero)
           /\ out.value.rows[j].delivered_count = V(1)

----------------------------------------------------------------------------
(* The filter / metrics layer applied to tables that lack a fact column *)

RequiredColumns == {"order_status", "on_time", "delay_days", "customer_state",
    "product_category_mode", "payment_type_mode", "order_purchase_timestamp",
    "order_id"}

\* df.drop(columns=[c]): the table without column c
Drop(frame, c) ==
    [columns |-> SelectSeq(frame.columns, LAMBDA k : k # c),
     rows |-> [i \in DOMAIN frame.rows |->
                  [k \in DOMAIN frame.rows[i] \ {c} |-> frame.rows[i][k]]]]

SchemaRows ==
    {[BaseRow EXCEPT !.order_status = V(s), !.mean_lat = c[1], !.mean_lng = c[2]] :
        s \in {"delivered", "shipped"},
        c \in {<<NaN, NaN>>, <<V(Rat(-23, 1)), V(Rat(-46, 1))>>}}

MalformedFrames ==
    {Drop(Frame(rows), c) :
        rows \in SeqsUpTo(SchemaRows, MaxRows) \ {<<>>}, c \in RequiredColumns}

\* one setting without an active filter and one per filter
SchemaSettings ==
    LET none == [date_range |-> <<>>, states |-> None, categories |-> None,
                 payment_types |-> None, delivered_only |-> FALSE]
    IN  {none,
         [none EXCEPT !.date_range = <<V(TimestampMin), None>>],
         [none EXCEPT !.date_range = <<None, V(TimestampMax)>>],
         [none EXCEPT !.states = V(<<"SP">>)],
         [none EXCEPT !.categories = V(<<"toys">>)],
         [none EXCEPT !.payment_types = V(<<"credit_card">>)],
         [none EXCEPT !.delivered_only = TRUE]}

InitSchema ==
    /\ raw = Tables(<<>>, <<>>, <<>>, <<>>, <<>>)
    /\ files = REQUIRED_CSVS
    /\ artifact = Absent
    /\ lastBuilt = EmptyFrame
    /\ df \in MalformedFrames
    /\ op = "init"
    /\ args = <<>>
    /\ out = NoCall

NextSchema ==
    \/ \E f \in SchemaSettings : ApplyFilters(f)
    \/ ComputeKpis
    \/ GroupGeo

SpecSchema == InitSchema /\ [][NextSchema]_vars

----------------------------------------------------------------------------
(* Claims about tables that lack a column, under SpecSchema *)

Lacks(frame, c) == c \notin Range(frame.columns)

\* C11: when a non-empty table that lacks a required fact column reaches
\* apply_filters, compute_kpis or group_geo, the function raises nothing and
\* returns its safe default: group_geo returns zero rows when a geo column is
\* lacking, compute_kpis the zero KPIs when order_status is lacking.
C11_SafeDefaultOnMissingColumn ==
    (/\ op \in {"apply_filters", "compute_kpis", "group_geo"}
     /\ df.rows # <<>>
     /\ \E c \in RequiredColumns : Lacks(df, c)) =>
        /\ out.raised = "none"
        /\ (op = "group_geo" /\ Lacks(df, "customer_state")) => out.value.rows = <<>>
        /\ (op = "compute_kpis" /\ Lacks(df, "order_status")) => out.value = KpiDefaults

----------------------------------------------------------------------------
(* Orders without coordinates: the build, then the metrics on its table *)

Geolocation2 == <<GeoRow(2, -22, -43)>>

\* every order's customer is known or not, and its prefix sampled or not
CoordInputs ==
    {Tables(o, Customers0, g, Payments0, Items0) :
        o \in SeqsUpTo(JoinOrderRows, MaxOrders),
        g \in {<<>>, Geolocation0, Geolocation2, Geolocation0 \o Geolocation2}}

\* fact rows with both, one or no coordinate; the one-sided coordinates differ
\* from the others, so that a row wrongly kept would move a mean
CoordRows ==
    {[BaseRow EXCEPT !.order_status = V(s[1]), !.on_time = s[2], !.delay_days = s[3],
                     !.customer_state = V(a), !.mean_lat = c[1], !.mean_lng = c[2]] :
        s \in {<<"delivered", V(TRUE), V(-2)>>, <<"shipped", None, NaN>>},
        a \in {"SP", "RJ"},
        c \in {<<NaN, NaN>>, <<NaN, V(Rat(-50, 1))>>, <<V(Rat(-20, 1)), NaN>>,
               <<V(Rat(-23, 1)), V(Rat(-46, 1))>>}}

CoordFrames ==
    {Frame(rows) : rows \in SeqsUpTo(CoordRows, MaxRows)}
    \cup {build_fact_orders(REQUIRED_CSVS, t).value : t \in CoordInputs}

InitGeo ==
    /\ \/ raw \in CoordInputs /\ df = EmptyFrame
       \/ raw = Tables(<<>>, <<>>, <<>>, <<>>, <<>>) /\ df \in CoordFrames
    /\ files = REQUIRED_CSVS
    /\ artifact = Absent
    /\ lastBuilt = EmptyFrame
    /\ op = "init"
    /\ args = <<>>
    /\ out = NoCall

NextGeo == Build \/ ComputeKpis \/ GroupGeo

SpecGeo == InitGeo /\ [][NextGeo]_vars

----------------------------------------------------------------------------
(* Claims about rows without coordinates, under SpecGeo *)

Sampled(prefix) ==
    \E i \in DOMAIN raw.geolocation :
        raw.geolocation[i].geolocation_zip_code_prefix = prefix

\* the rows that have both coordinates and the state of an output row
Located(frame, state) ==
    SelectSeq(frame.rows, LAMBDA r : HasCoordinates(r) /\ r.customer_state = state)
LocatedDelivered(frame, state) ==
    SelectSeq(Located(frame, state), LAMBDA r : r.order_status = V("delivered"))
WithCoordinates(frame) ==
    [frame EXCEPT !.rows = SelectSeq(frame.rows, HasCoordinates)]

\* C13: an order whose customer postal prefix has no geolocation sample has
\* its fact row, with null mean_lat and mean_lng; a row with a null mean_lat or
\* mean_lng contributes to no output row of group_geo (the output is that of
\* the table without these rows: counts and means are taken over the rows
\* that have both coordinates) and is counted in compute_kpis total_orders
\* and, if delivered, in delivered_orders.
C13_NoCoordinatesNoGeoRow ==
    /\ built =>
           /\ OrderIds(df.rows) = OrderIds(raw.orders)
           /\ Len(df.rows) >= Len(raw.orders)
           /\ \A i \in DOMAIN df.rows :
                  ~Sampled(df.rows[i].customer_zip_code_prefix) =>
                      isna(df.rows[i].mean_lat) /\ isna(df.rows[i].mean_lng)
    /\ op = "group_geo" =>
           /\ out.raised = "none"
           /\ out.value.rows = group_geo(WithCoordinates(df)).value.rows
           /\ \A i \in DOMAIN df.rows :
                  Located(df, df.rows[i].customer_state) = <<>> =>
                      \A j \in DOMAIN out.value.rows :
                          out.value.rows[j].customer_state # df.rows[i].customer_state
           /\ \A j \in DOMAIN out.value.rows :
                  LET g == out.value.rows[j]
                      all == Located(df, g.customer_state)
                      del == LocatedDelivered(df, g.customer_state)
                  IN  /\ g.order_count = V(nunique(Column(all, "order_id")))
                      /\ g.delivered_count = V(nunique(Column(del, "order_id")))
                      /\ g.on_time_count =
                             V(Len(SelectSeq(del, LAMBDA r : r.on_time = V(TRUE))))
                      /\ g.mean_lat = mean(Column(all, "mean_lat"))
                      /\ g.mean_lng = mean(Column(all, "mean_lng"))
                      /\ g.avg_delay_days =
                             fillna(mean_of_ints(Column(del, "delay_days")), V(Zero))
    /\ op = "compute_kpis" =>
           /\ out.raised = "none"
           /\ out.value.total_orders = Len(df.rows)
           /\ out.value.delivered_orders = Len(DeliveredRows(df))

\* group_geo was handed the table built from two delivered orders of two
\* customers, the second of an unsampled prefix, and returned one row that
\* counts one order
C13_Witness ==
    /\ op = "group_geo" /\ out.raised = "none"
    /\ \E t \in CoordInputs :
           /\ t.geolocation = Geolocation0
           /\ Len(t.orders) = 2
           /\ df = build_fact_orders(REQUIRED_CSVS, t).value
    /\ \E i, j \in DOMAIN df.rows :
           /\ df.rows[i].customer_zip_code_prefix = V(2)
           /\ isna(df.rows[i].mean_lat) /\ isna(df.rows[i].mean_lng)
           /\ df.rows[i].order_status = V("delivered")
           /\ df.rows[j].customer_zip_code_prefix = V(1)
           /\ HasCoordinates(df.rows[j])
    /\ Len(out.value.rows) = 1
    /\ out.value.rows[1].order_count = V(1)
    /\ out.value.rows[1].delivered_count = V(1)

----------------------------------------------------------------------------
(* transform.py: concurrent invocations of get_fact_orders                 *)
(*                                                                         *)
(* Each invocation runs the statements of lines 133-139 one at a time:     *)
(* the existence check, then either read_parquet, or build_fact_orders     *)
(* followed by to_parquet and the return.  Each of these library calls is  *)
(* one step.  Here args[c] holds the arguments of invocation c and out[c]  *)
(* its position (pc), what its check saw (hit), the table it holds or has  *)
(* returned (value) and whether it has written the artifact (wrote).       *)

Calls == 1..MaxCalls

\* "use_cache_file and parquet_path.exists()"
cache_hit(use_cache_file, art) == use_cache_file /\ art.exists

\* mutant of persist: an artifact that exists is not overwritten
persist_if_absent(art, frame) == IF art.exists THEN art ELSE to_parquet(frame)

\* df.to_parquet(parquet_path, index=False): whatever the file holds is replaced
persist(art, frame) == to_parquet(frame)

RaceDatasets ==
    {Tables(o, Customers0, Geolocation0, Payments0, Items0) :
        o \in {<<OrderRow(1, 1, "delivered", V(0), V(0), V(MaxTick))>>,
               <<OrderRow(1, 1, "delivered", V(0), NaN, V(MaxTick)),
                 OrderRow(2, 2, "shipped", V(1), NaN, V(MaxTick))>>}}

\* the table an earlier invocation left on disk
PriorFrame == build_fact_orders(REQUIRED_CSVS, Tables(<<>>, <<>>, <<>>, <<>>, <<>>)).value

Entered == [pc |-> "check", hit |-> FALSE, raised |-> "none", value |-> EmptyFrame,
            wrote |-> FALSE]

InitRace ==
    /\ raw \in RaceDatasets
    /\ files = REQUIRED_CSVS
    /\ \/ artifact = Absent /\ lastBuilt = EmptyFrame
       \/ artifact = to_parquet(PriorFrame) /\ lastBuilt = PriorFrame
    /\ df = EmptyFrame
    /\ op = "init"
    /\ args \in [Calls -> [use_cache_file : BOOLEAN]]
    /\ out = [c \in Calls |-> Entered]

\* line 133: the test of the if statement
Check(c) ==
    /\ out[c].pc = "check"
    /\ LET hit == cache_hit(args[c].use_cache_file, artifact)
       IN  out' = [out EXCEPT ![c].hit = hit,
                              ![c].pc = IF hit THEN "read" ELSE "build"]
    /\ op' = "get_fact_orders"
    /\ UNCHANGED <<raw, files, artifact, lastBuilt, df, args>>

\* line 134: return pd.read_parquet(parquet_path)
ReadArtifact(c) ==
    /\ out[c].pc = "read"
    /\ out' = [out EXCEPT ![c].pc = "done",
                          ![c].raised = IF artifact.exists THEN "none"
                                        ELSE "FileNotFoundError",
                          ![c].value = IF artifact.exists THEN read_parquet(artifact)
                                       ELSE EmptyFrame]
    /\ op' = "get_fact_orders"
    /\ UNCHANGED <<raw, files, artifact, lastBuilt, df, args>>

\* line 136: df = build_fact_orders(raw_dir)
BuildTable(c) ==
    /\ out[c].pc = "build"
    /\ LET b == build_fact_orders(files, raw)
       IN  out' = [out EXCEPT ![c].pc = IF b.raised = "none" THEN "write" ELSE "done",
                              ![c].raised = b.raised,
                              ![c].value = IF b.raised = "none" THEN b.value
                                           ELSE EmptyFrame]
    /\ op' = "get_fact_orders"
    /\ UNCHANGED <<raw, files, artifact, lastBuilt, df, args>>

\* lines 137-139: mkdir, df.to_parquet(parquet_path, index=False), return df
WriteArtifact(c) ==
    /\ out[c].pc = "write"
    /\ artifact' = persist(artifact, out[c].value)
    /\ lastBuilt' = out[c].value
    /\ out' = [out EXCEPT ![c].pc = "done", ![c].wrote = TRUE]
    /\ op' = "get_fact_orders"
    /\ UNCHANGED <<raw, files, df, args>>

\* the raw files are replaced while invocations are running
ReplaceRaw ==
    /\ raw' \in RaceDatasets \ {raw}
    /\ op' = "change_raw"
    /\ UNCHANGED <<files, artifact, lastBuilt, df, args, out>>

NextRace ==
    \/ \E c \in Calls : Check(c)
    \/ \E c \in Calls : ReadArtifact(c)
    \/ \E c \in Calls : BuildTable(c)
    \/ \E c \in Calls : WriteArtifact(c)
    \/ ReplaceRaw

SpecRace == InitRace /\ [][NextRace]_vars

----------------------------------------------------------------------------
(* Claims about concurrent invocations, under SpecRace *)

Running(c) == out[c].pc # "done"
Builders == {c \in Calls : out[c].wrote}

\* C14: get_fact_orders has no concurrent-writer protection.  The existence
\* test of an invocation sees only its flag and the file, whatever the others
\* are doing; a build is followed by a write whatever the artifact holds by
\* then, and the write replaces the artifact, so the artifact holds the table
\* of the invocation that wrote last; a cached reader returns what the
\* artifact holds at the moment it reads; a builder returns its own table,
\* whatever is on disk when it returns.
C14_NoWriterProtection ==
    /\ [](artifact.exists => artifact = to_parquet(lastBuilt))
    /\ [][\A c \in Calls :
             /\ (out[c].pc = "check" /\ out'[c].pc # "check") =>
                    /\ out'[c].hit = (args[c].use_cache_file /\ artifact.exists)
                    /\ out'[c].pc = IF out'[c].hit THEN "read" ELSE "build"
             /\ (out[c].pc = "build" /\ out'[c].pc # "build") =>
                    /\ out'[c].pc = "write"
                    /\ out'[c].value = build_fact_orders(files, raw).value
                    /\ artifact' = artifact
             /\ (out[c].pc = "write" /\ out'[c].pc # "write") =>
                    /\ out'[c].pc = "done" /\ out'[c].wrote
                    /\ out'[c].value = out[c].value
                    /\ artifact' = to_parquet(out[c].value)
                    /\ lastBuilt' = out[c].value
             /\ (out[c].pc = "read" /\ out'[c].pc # "read") =>
                    /\ out'[c].pc = "done" /\ ~out'[c].wrote
                    /\ out'[c].raised = "none"
                    /\ out'[c].value = read_parquet(artifact)
                    /\ artifact' = artifact]_vars

\* two invocations with use_cache_file=True both found the artifact absent,
\* both built, on different raw inputs, and both wrote: the artifact holds the
\* table of the second one and the first one returned another table
C14_Witness ==
    /\ \A c \in Calls : ~Running(c) /\ out[c].wrote /\ ~out[c].hit
                        /\ args[c].use_cache_file /\ out[c].raised = "none"
    /\ \E c, d \in Calls :
           /\ artifact = to_parquet(out[d].value)
           /\ to_parquet(out[c].value) # artifact
           /\ lastBuilt = out[d].value

\* every row has both coordinates and the rows share one non-null state
OneLocatedState(frame) ==
    /\ frame.rows # <<>>
    /\ \A i \in DOMAIN frame.rows :
           /\ HasCoordinates(frame.rows[i])
           /\ notna(frame.rows[i].customer_state)
           /\ frame.rows[i].customer_state = frame.rows[1].customer_state

\* C15: in every row that group_geo returns,
\* 0 <= on_time_count <= delivered_count <= order_count and
\* 0 <= on_time_rate <= 1, with on_time_rate = on_time_count / delivered_count
\* when delivered_count > 0; and for a table whose rows all have coordinates
\* and one non-null state, the single row's delivered_count, on_time_count
\* and avg_delay_days are compute_kpis' delivered_orders, on_time_count and
\* avg_delay_days on the same table.
C15_GeoCountsConsistent ==
    (op = "group_geo" /\ out.raised = "none") =>
        /\ \A j \in DOMAIN out.value.rows :
               LET g == out.value.rows[j]
               IN  /\ 0 <= g.on_time_count.val
                   /\ g.on_time_count.val <= g.delivered_count.val
                   /\ g.delivered_count.val <= g.order_count.val
                   /\ 0 <= g.on_time_rate.val.num
                   /\ g.on_time_rate.val.num <= g.on_time_rate.val.den
                   /\ g.delivered_count.val > 0 =>
                          g.on_time_rate.val =
                              Rat(g.on_time_count.val, g.delivered_count.val)
        /\ OneLocatedState(df) =>
               LET k == compute_kpis(df).value
               IN  /\ Len(out.value.rows) = 1
                   /\ out.value.rows[1].delivered_count = V(k.delivered_orders)
                   /\ out.value.rows[1].on_time_count = V(k.on_time_count)
                   /\ out.value.rows[1].avg_delay_days = V(k.avg_delay_days)

====
